---- MODULE Spec2Model ----
(***************************************************************************)
(* Model of model_fitting.py: a single straight-line pass over a static    *)
(* registry of conductivity datasets: fit -> tabulate -> plot -> export.   *)
(*                                                                         *)
(* Numbers are fixed point.  Fractions x are integers in units of 1/XOne;  *)
(* A and B are integers in units of 1/PUnit; a conductivity is a pair      *)
(* <<m, e>> standing for m * 10^e; a quotient is a pair <<num, den>>.      *)
(* Results of the model evaluator are kept as IEEE value classes           *)
(* ("nan", "zero", "pos", "neg"): what numpy yields for the power of a     *)
(* negative, zero or positive base and for products of such values.        *)
(***************************************************************************)
EXTENDS Integers, Sequences, FiniteSets, TLC

VARIABLES pc, idx, fit_table, raw_data_table, console, A, B, figure,
          image, rawCsv, paramsCsv, events, abort, fitter_x, popt_log, ev

vars == <<pc, idx, fit_table, raw_data_table, console, A, B, figure,
          image, rawCsv, paramsCsv, events, abort, fitter_x, popt_log, ev>>

mainvars == <<pc, idx, fit_table, raw_data_table, console, A, B, figure,
              image, rawCsv, paramsCsv, events, abort, fitter_x, popt_log>>

(* ------------------------------ bounds -------------------------------- *)
\* how many candidate values of A / of B the solver may return
NA == 2
NB == 2
\* stand-alone evaluations take x within MaxEvalD grid steps of x_c
MaxEvalD == 12

(* ------------------------- program constants -------------------------- *)
GridPoints == 400
\* units of x per 1.0, chosen so that the 400-point grid is exact
XOne == 100 * (GridPoints - 1)
XHundredth == XOne \div 100
\* units of A and B per 1.0
PUnit == 100000
x_c == 5 * XHundredth
XStart == 5 * XHundredth
XStop == 80 * XHundredth
ALow == PUnit \div 10000
AHigh == PUnit
BLow == PUnit \div 100
BHigh == 10 * PUnit
p0 == <<5 * (PUnit \div 100), PUnit \div 2>>
\* a file that was never opened, and a file holding the given lines
NoFile == [exists |-> FALSE, lines |-> <<>>]
File(content) == [exists |-> TRUE, lines |-> content]
\* a name that is not bound yet (no value of A or B is negative)
Unbound == 0 - 1

(* ----------------------------- arithmetic ----------------------------- *)
RECURSIVE Pow10(_)
Pow10(n) == IF n <= 0 THEN 1 ELSE 10 * Pow10(n - 1)

RECURSIVE NumDigits(_)
NumDigits(n) == IF n < 10 THEN 1 ELSE 1 + NumDigits(n \div 10)

\* n/d rounded to the nearest integer, ties to even (n >= 0, d > 0)
RoundDiv(n, d) ==
    LET q == n \div d
        r == n % d
    IN  IF 2 * r > d THEN q + 1
        ELSE IF 2 * r < d THEN q
        ELSE IF q % 2 = 0 THEN q ELSE q + 1

\* float division B / A, kept as the exact quotient
Div(num, den) == <<num, den>>

\* value classes of the four float operations the model uses
Sgn(n) == IF n > 0 THEN "pos" ELSE IF n = 0 THEN "zero" ELSE "neg"

\* base ** 4.5 in numpy: nan for a negative base, 0.0 for 0.0
PowT(base) == IF base < 0 THEN "nan" ELSE IF base = 0 THEN "zero" ELSE "pos"

\* np.exp of a finite argument
ExpNeg(b, x) == "pos"

Mul(u, v) ==
    IF u = "nan" \/ v = "nan" THEN "nan"
    ELSE IF u = "zero" \/ v = "zero" THEN "zero"
    ELSE IF u = v THEN "pos" ELSE "neg"

(* --------------------------- model evaluator --------------------------- *)
percolation_model_fixed_t_le(x, a, b) ==
    IF x <= x_c THEN "nan" ELSE Mul(Mul(Sgn(a), "pos"), ExpNeg(b, x))

percolation_model_fixed_t(x, a, b) ==
    Mul(Mul(Sgn(a), PowT(x - x_c)), ExpNeg(b, x))

\* the evaluator applied to an array
model_array(xs, a, b) ==
    [k \in DOMAIN xs |-> percolation_model_fixed_t(xs[k], a, b)]

(* ------------------------------ formatting ----------------------------- *)
\* f"{x:.2f}" of a fraction: the number of hundredths
FmtX(x, dec) == RoundDiv(x * Pow10(dec), XOne)
ParseX(h, dec) == h * (XOne \div Pow10(dec))

\* f"{v:.nf}" of A or B (n <= 5): the number of 10^-n
FmtP(v, dec) == RoundDiv(v, PUnit \div Pow10(dec))

\* f"{q:.nf}" of a quotient
FmtQ(q, dec) == RoundDiv(q[1] * Pow10(dec), q[2])

\* f"{s:.ne}" of m * 10^e: <<mantissa in 10^-n, exponent>>
FmtE(s, dec) ==
    LET nd == NumDigits(s[1])
        m0 == IF nd <= dec + 1 THEN s[1] * Pow10(dec + 1 - nd)
              ELSE RoundDiv(s[1], Pow10(nd - dec - 1))
    IN  IF m0 = Pow10(dec + 1) THEN <<Pow10(dec), s[2] + nd>>
        ELSE <<m0, s[2] + nd - 1>>
ParseE(t, dec) == <<t[1], t[2] - dec>>

\* equality of two values m * 10^e
SciEq(s, t) ==
    LET lo == IF s[2] < t[2] THEN s[2] ELSE t[2]
    IN  s[1] * Pow10(s[2] - lo) = t[1] * Pow10(t[2] - lo)

\* f"{n}" of a non-negative integer: its decimal digits
RECURSIVE FmtInt(_)
FmtInt(n) == IF n < 10 THEN <<n>> ELSE Append(FmtInt(n \div 10), n % 10)
RECURSIVE ParseInt(_)
ParseInt(ds) ==
    IF Len(ds) = 0 THEN 0
    ELSE 10 * ParseInt(SubSeq(ds, 1, Len(ds) - 1)) + ds[Len(ds)]

(* ------------------------------ the data ------------------------------ *)
H(n) == n * XHundredth

data_registry == <<
    [system |-> "LiCl (Li+)", valency |-> "Monovalent", charge |-> 1,
     x |-> <<H(10), H(20), H(30), H(40), H(50)>>,
     sigma |-> << <<498, -9>>, <<355, -8>>, <<361, -7>>, <<661, -6>>, <<208, -5>> >>,
     fit |-> TRUE],
    [system |-> "NaN3 (Na+)", valency |-> "Monovalent", charge |-> 1,
     x |-> <<H(5), H(10), H(15), H(20)>>,
     sigma |-> << <<185, -9>>, <<270, -8>>, <<240, -8>>, <<220, -8>> >>,
     fit |-> FALSE],
    [system |-> "NH4I (NH4+)", valency |-> "Monovalent", charge |-> 1,
     x |-> <<H(30), H(40), H(50), H(60), H(70)>>,
     sigma |-> << <<51, -7>>, <<97, -6>>, <<37, -5>>, <<12, -4>>, <<45, -4>> >>,
     fit |-> TRUE],
    [system |-> "Mg(NO3)2 (Mg2+)", valency |-> "Divalent", charge |-> 2,
     x |-> <<H(30), H(40), H(50), H(60)>>,
     sigma |-> << <<486, -8>>, <<686, -7>>, <<770, -6>>, <<753, -6>> >>,
     fit |-> TRUE],
    [system |-> "ZnCl2 (Zn2+)", valency |-> "Divalent", charge |-> 2,
     x |-> <<H(50), H(60), H(70)>>,
     sigma |-> << <<672, -6>>, <<449, -5>>, <<421, -5>> >>,
     fit |-> TRUE] >>

N == Len(data_registry)

colors_missing ==
    [s \in {"LiCl (Li+)", "NaN3 (Na+)", "NH4I (NH4+)", "Mg(NO3)2 (Mg2+)"} |->
        CASE s = "LiCl (Li+)" -> "red"
          [] s = "NaN3 (Na+)" -> "orange"
          [] s = "NH4I (NH4+)" -> "gold"
          [] s = "Mg(NO3)2 (Mg2+)" -> "purple"]

colors ==
    [s \in {"LiCl (Li+)", "NaN3 (Na+)", "NH4I (NH4+)", "Mg(NO3)2 (Mg2+)", "ZnCl2 (Zn2+)"} |->
        CASE s = "LiCl (Li+)" -> "red"
          [] s = "NaN3 (Na+)" -> "orange"
          [] s = "NH4I (NH4+)" -> "gold"
          [] s = "Mg(NO3)2 (Mg2+)" -> "purple"
          [] s = "ZnCl2 (Zn2+)" -> "brown"]

markers == [v \in {"Monovalent", "Divalent"} |-> IF v = "Monovalent" THEN "o" ELSE "^"]

\* np.linspace(0.05, 0.80, 400)
x_smooth == [k \in 1..GridPoints |->
                XStart + ((k - 1) * (XStop - XStart)) \div (GridPoints - 1)]

(* --------------------------- the solver's range ------------------------ *)
\* curve_fit is library code: it returns some (A, B) inside the bounds or raises
ACands == <<ALow, 33333, AHigh, 5000, 61234>>
BCands == <<50000, BHigh, BLow, 123456>>
ASet == {ACands[k] : k \in 1..NA}
BSet == {BCands[k] : k \in 1..NB}

(* ------------------------------ helpers ------------------------------- *)
Elems(seq) == {seq[k] : k \in DOMAIN seq}

Min(m, n) == IF m < n THEN m ELSE n

\* zip(d["x"], d["sigma"]) turned into raw_data_table rows
RawPoints(d) ==
    [k \in 1..Min(Len(d.x), Len(d.sigma)) |-> <<d.system, d.charge, d.x[k], d.sigma[k]>>]

\* fit-quality metrics: symbolic values of the observed and predicted arrays
rmse_of(d, a, b, y_fit) == [op |-> "rmse", system |-> d.system, A |-> a, B |-> b, y_fit |-> y_fit]
r2_of(d, a, b, y_fit) == [op |-> "r2", system |-> d.system, A |-> a, B |-> b, y_fit |-> y_fit]

vpi_swapped(a, b) == Div(a, b)

\* vpi = B / A
vpi_of(a, b) == Div(b, a)

\* the row appended to fit_table
FitRow(d, a, b) ==
    LET y_fit == model_array(d.x, a, b)
    IN  [system |-> d.system, charge |-> d.charge, A |-> a, B |-> b,
         vpi |-> vpi_of(a, b), rmse |-> rmse_of(d, a, b, y_fit), r2 |-> r2_of(d, a, b, y_fit)]

HeaderLines == << [kind |-> "rule"], [kind |-> "header"], [kind |-> "rule"] >>

PlaceholderLine(d) == [kind |-> "placeholder", system |-> d.system]

FitLine(row) ==
    [kind |-> "fit", system |-> row.system, A |-> FmtP(row.A, 3), B |-> FmtP(row.B, 2),
     vpi |-> FmtQ(row.vpi, 2), rmse |-> <<".1e", row.rmse>>, r2 |-> <<".3f", row.r2>>]

ConfirmLines == << [kind |-> "confirm", text |-> "SI FILES GENERATED"],
                   [kind |-> "confirm", text |-> "SI_Raw_Digitized_Data.csv"],
                   [kind |-> "confirm", text |-> "SI_Fitted_Parameters_and_VPI.csv"] >>

RawLine_1e(d, k) ==
    [system |-> d.system, charge |-> FmtInt(d.charge),
     x |-> FmtX(d.x[k], 2), sigma |-> FmtE(d.sigma[k], 1)]

\* one line of SI_Raw_Digitized_Data.csv
RawLine(d, k) ==
    [system |-> d.system, charge |-> FmtInt(d.charge),
     x |-> FmtX(d.x[k], 2), sigma |-> FmtE(d.sigma[k], 3)]

RawHeader == [header |-> "System,Charge,Salt_Weight_Fraction,Conductivity_S_cm"]

RECURSIVE RawLinesFrom(_)
RawLinesFrom(i) ==
    IF i > N THEN <<>>
    ELSE LET d == data_registry[i]
         IN  [k \in 1..Min(Len(d.x), Len(d.sigma)) |-> RawLine(d, k)] \o RawLinesFrom(i + 1)

\* the whole raw file: header, then every point of every dataset
RawFile == <<RawHeader>> \o RawLinesFrom(1)

\* one line of SI_Fitted_Parameters_and_VPI.csv
ParamsLine(row) ==
    [system |-> row.system, charge |-> FmtInt(row.charge), A |-> FmtP(row.A, 4),
     B |-> FmtP(row.B, 4), VPI |-> FmtQ(row.vpi, 2),
     rmse |-> <<".3e", row.rmse>>, r2 |-> <<".3f", row.r2>>]

ParamsHeader == [header |-> "System,Charge,A,B,VPI,RMSE_S_cm,R2"]

\* the whole parameters file: header, then one line per fit_table row
ParamsFile(table) == <<ParamsHeader>> \o [k \in DOMAIN table |-> ParamsLine(table[k])]

\* what a file holds when a write raised part-way: nothing, or some of its lines
Partial(content) == {NoFile} \cup {File(SubSeq(content, 1, n)) : n \in 0..(Len(content) - 1)}

\* next(r for r in fit_table if r[0] == system): indices of the matching rows
Matching(table, system) == {k \in DOMAIN table : table[k].system = system}

(* ------------------------------- state -------------------------------- *)
Init ==
    /\ pc = "header"
    /\ idx = 1
    /\ fit_table = <<>>
    /\ raw_data_table = <<>>
    /\ console = <<>>
    /\ A = Unbound
    /\ B = Unbound
    /\ figure = <<>>
    /\ image = FALSE
    /\ rawCsv = NoFile
    /\ paramsCsv = NoFile
    /\ events = <<>>
    /\ abort = "none"
    /\ fitter_x = {}
    /\ popt_log = <<>>
    /\ ev = [x |-> x_c, A |-> p0[1], B |-> p0[2], y |-> "unset"]

\* lines 72-74: the table header
PrintHeader ==
    /\ pc = "header"
    /\ console' = console \o HeaderLines
    /\ pc' = "fit"
    /\ idx' = 1
    /\ UNCHANGED <<fit_table, raw_data_table, A, B, figure, image, rawCsv, paramsCsv,
                   events, abort, fitter_x, popt_log, ev>>

\* lines 76-84: a dataset whose fit flag is false
FitSkip ==
    /\ pc = "fit"
    /\ idx <= N
    /\ LET d == data_registry[idx]
       IN  /\ ~d.fit
           /\ raw_data_table' = raw_data_table \o RawPoints(d)
           /\ console' = Append(console, PlaceholderLine(d))
    /\ idx' = idx + 1
    /\ UNCHANGED <<pc, fit_table, A, B, figure, image, rawCsv, paramsCsv,
                   events, abort, fitter_x, popt_log, ev>>

FitSolve_nocheck ==
    /\ pc = "fit"
    /\ idx <= N
    /\ LET d == data_registry[idx]
       IN  \E a \in ASet, b \in BSet :
             /\ raw_data_table' = raw_data_table \o RawPoints(d)
             /\ fitter_x' = fitter_x \cup Elems(d.x)
             /\ popt_log' = Append(popt_log, [system |-> d.system, A |-> a, B |-> b])
             /\ A' = a
             /\ B' = b
             /\ fit_table' = Append(fit_table, FitRow(d, a, b))
             /\ console' = Append(console, FitLine(FitRow(d, a, b)))
    /\ idx' = idx + 1
    /\ UNCHANGED <<pc, figure, image, rawCsv, paramsCsv, events, abort, ev>>

\* lines 76-106: a dataset that is fitted; the solver returns (a, b) in bounds
FitSolve ==
    /\ pc = "fit"
    /\ idx <= N
    /\ LET d == data_registry[idx]
       IN  /\ d.fit
           /\ \E a \in ASet, b \in BSet :
                /\ a >= ALow /\ a <= AHigh /\ b >= BLow /\ b <= BHigh
                /\ raw_data_table' = raw_data_table \o RawPoints(d)
                /\ fitter_x' = fitter_x \cup Elems(d.x)
                /\ popt_log' = Append(popt_log, [system |-> d.system, A |-> a, B |-> b])
                /\ A' = a
                /\ B' = b
                /\ fit_table' = Append(fit_table, FitRow(d, a, b))
                /\ console' = Append(console, FitLine(FitRow(d, a, b)))
    /\ idx' = idx + 1
    /\ UNCHANGED <<pc, figure, image, rawCsv, paramsCsv, events, abort, ev>>

FitFail_continue ==
    /\ pc = "fit"
    /\ idx <= N
    /\ LET d == data_registry[idx]
       IN  /\ d.fit
           /\ raw_data_table' = raw_data_table \o RawPoints(d)
           /\ fitter_x' = fitter_x \cup Elems(d.x)
           /\ console' = Append(console, PlaceholderLine(d))
    /\ abort' = "solver"
    /\ idx' = idx + 1
    /\ UNCHANGED <<pc, fit_table, A, B, figure, image, rawCsv, paramsCsv,
                   events, popt_log, ev>>

\* lines 76-95: curve_fit raises; nothing catches it
FitFail ==
    /\ pc = "fit"
    /\ idx <= N
    /\ LET d == data_registry[idx]
       IN  /\ d.fit
           /\ raw_data_table' = raw_data_table \o RawPoints(d)
           /\ fitter_x' = fitter_x \cup Elems(d.x)
    /\ pc' = "aborted"
    /\ abort' = "solver"
    /\ UNCHANGED <<idx, fit_table, console, A, B, figure, image, rawCsv, paramsCsv,
                   events, popt_log, ev>>

\* lines 108-125: closing rule of the table, new figure, grid, colour and marker maps
PrintFooter ==
    /\ pc = "fit"
    /\ idx = N + 1
    /\ console' = Append(console, [kind |-> "rule"])
    /\ pc' = "plot"
    /\ idx' = 1
    /\ UNCHANGED <<fit_table, raw_data_table, A, B, figure, image, rawCsv, paramsCsv,
                   events, abort, fitter_x, popt_log, ev>>

\* plt.scatter(...) of one dataset; the two map lookups raise KeyError when a key is missing
Scatter(d) ==
    [kind |-> "scatter", system |-> d.system, x |-> d.x, y |-> d.sigma,
     marker |-> markers[d.valency], color |-> colors[d.system]]

\* percolation_model_fixed_t(x_smooth, A, B), tabulated over the values the solver can return
curve == [a \in ASet, b \in BSet |-> model_array(x_smooth, a, b)]

PlotLine_stale(d, row, gA, gB) ==
    [kind |-> "line", system |-> d.system, A |-> gA, B |-> gB,
     y |-> curve[gA, gB], color |-> colors[d.system]]

\* plt.plot(x_smooth, model(x_smooth, A, B)) with A, B rebound from the dataset's row
PlotLine(d, row, gA, gB) ==
    [kind |-> "line", system |-> d.system, A |-> row.A, B |-> row.B,
     y |-> curve[row.A, row.B], color |-> colors[d.system]]

\* lines 127-146: one iteration of the plot loop
PlotStep ==
    /\ pc = "plot"
    /\ idx <= N
    /\ LET d == data_registry[idx]
           found == Matching(fit_table, d.system)
       IN  IF d.valency \notin DOMAIN markers \/ d.system \notin DOMAIN colors
           THEN \* KeyError
                /\ pc' = "aborted"
                /\ abort' = "config"
                /\ UNCHANGED <<idx, figure, A, B>>
           ELSE IF d.fit /\ found = {}
           THEN \* next() on an exhausted generator
                /\ figure' = Append(figure, Scatter(d))
                /\ pc' = "aborted"
                /\ abort' = "config"
                /\ UNCHANGED <<idx, A, B>>
           ELSE IF d.fit
           THEN LET row == fit_table[CHOOSE k \in found : \A j \in found : k <= j]
                IN  /\ figure' = figure \o <<Scatter(d), PlotLine(d, row, A, B)>>
                    /\ A' = row.A
                    /\ B' = row.B
                    /\ idx' = idx + 1
                    /\ UNCHANGED <<pc, abort>>
           ELSE /\ figure' = Append(figure, Scatter(d))
                /\ idx' = idx + 1
                /\ UNCHANGED <<pc, abort, A, B>>
    /\ UNCHANGED <<fit_table, raw_data_table, console, image, rawCsv, paramsCsv,
                   events, fitter_x, popt_log, ev>>

SaveFig_skip ==
    /\ pc = "plot"
    /\ idx = N + 1
    /\ pc' = "show"
    /\ UNCHANGED <<idx, fit_table, raw_data_table, console, A, B, figure, image, rawCsv,
                   paramsCsv, events, abort, fitter_x, popt_log, ev>>

\* lines 148-155: axes, legend, and the image file
SaveFig ==
    /\ pc = "plot"
    /\ idx = N + 1
    /\ image' = TRUE
    /\ events' = Append(events, "image")
    /\ pc' = "show"
    /\ UNCHANGED <<idx, fit_table, raw_data_table, console, A, B, figure, rawCsv,
                   paramsCsv, abort, fitter_x, popt_log, ev>>

\* line 155: savefig raises an I/O error
SaveFigFail ==
    /\ pc = "plot"
    /\ idx = N + 1
    /\ pc' = "aborted"
    /\ abort' = "io"
    /\ UNCHANGED <<idx, fit_table, raw_data_table, console, A, B, figure, image, rawCsv,
                   paramsCsv, events, fitter_x, popt_log, ev>>

\* line 156: plt.show() returns
Show ==
    /\ pc = "show"
    /\ pc' = "raw"
    /\ UNCHANGED <<idx, fit_table, raw_data_table, console, A, B, figure, image, rawCsv,
                   paramsCsv, events, abort, fitter_x, popt_log, ev>>

\* lines 164-168: the raw file, written from data_registry; the loop rebinds system and d
ExportRaw ==
    /\ pc = "raw"
    /\ rawCsv' = File(RawFile)
    /\ events' = Append(events, "raw")
    /\ pc' = "params"
    /\ idx' = N + 1
    /\ UNCHANGED <<fit_table, raw_data_table, console, A, B, figure, image,
                   paramsCsv, abort, fitter_x, popt_log, ev>>

\* lines 164-168: open or write raises
ExportRawFail ==
    /\ pc = "raw"
    /\ rawCsv' \in Partial(RawFile)
    /\ pc' = "aborted"
    /\ abort' = "io"
    /\ UNCHANGED <<idx, fit_table, raw_data_table, console, A, B, figure, image,
                   paramsCsv, events, fitter_x, popt_log, ev>>

ExportParams_reversed ==
    /\ pc = "params"
    /\ paramsCsv' = File(<<ParamsHeader>> \o
          [k \in DOMAIN fit_table |-> ParamsLine(fit_table[Len(fit_table) + 1 - k])])
    /\ events' = Append(events, "params")
    /\ A' = IF fit_table = <<>> THEN A ELSE fit_table[Len(fit_table)].A
    /\ B' = IF fit_table = <<>> THEN B ELSE fit_table[Len(fit_table)].B
    /\ pc' = "confirm"
    /\ UNCHANGED <<idx, fit_table, raw_data_table, console, figure, image, rawCsv,
                   abort, fitter_x, popt_log, ev>>

\* lines 171-175: the parameters file; the loop rebinds A and B to each row's values
ExportParams ==
    /\ pc = "params"
    /\ paramsCsv' = File(ParamsFile(fit_table))
    /\ events' = Append(events, "params")
    /\ A' = IF fit_table = <<>> THEN A ELSE fit_table[Len(fit_table)].A
    /\ B' = IF fit_table = <<>> THEN B ELSE fit_table[Len(fit_table)].B
    /\ pc' = "confirm"
    /\ UNCHANGED <<idx, fit_table, raw_data_table, console, figure, image, rawCsv,
                   abort, fitter_x, popt_log, ev>>

\* lines 171-175: open or write raises
ExportParamsFail ==
    /\ pc = "params"
    /\ paramsCsv' \in Partial(ParamsFile(fit_table))
    /\ pc' = "aborted"
    /\ abort' = "io"
    /\ UNCHANGED <<idx, fit_table, raw_data_table, console, A, B, figure, image,
                   rawCsv, events, fitter_x, popt_log, ev>>

\* lines 177-179: the confirmation lines, then the script ends
Confirm ==
    /\ pc = "confirm"
    /\ console' = console \o ConfirmLines
    /\ events' = Append(events, "confirm")
    /\ pc' = "done"
    /\ UNCHANGED <<idx, fit_table, raw_data_table, A, B, figure, image, rawCsv,
                   paramsCsv, abort, fitter_x, popt_log, ev>>

Next ==
    \/ PrintHeader
    \/ FitSkip
    \/ FitSolve
    \/ FitFail
    \/ PrintFooter
    \/ PlotStep
    \/ SaveFig
    \/ SaveFigFail
    \/ Show
    \/ ExportRaw
    \/ ExportRawFail
    \/ ExportParams
    \/ ExportParamsFail
    \/ Confirm

Spec == Init /\ [][Next]_vars

\* the script is sequential: whatever step is enabled is eventually taken
LiveSpec == Spec /\ WF_vars(Next)

(* ---------------------- the evaluator on its own ---------------------- *)
EvalX == {x_c + k * ((XStop - XStart) \div (GridPoints - 1)) : k \in (0 - MaxEvalD)..MaxEvalD}

EvalInit ==
    /\ pc = "eval"
    /\ idx = 1
    /\ fit_table = <<>>
    /\ raw_data_table = <<>>
    /\ console = <<>>
    /\ A = Unbound
    /\ B = Unbound
    /\ figure = <<>>
    /\ image = FALSE
    /\ rawCsv = NoFile
    /\ paramsCsv = NoFile
    /\ events = <<>>
    /\ abort = "none"
    /\ fitter_x = {}
    /\ popt_log = <<>>
    /\ ev \in [x : EvalX, A : ASet, B : BSet, y : {"unset"}]

\* one call percolation_model_fixed_t(x, A, B)
EvalApply ==
    /\ pc = "eval"
    /\ ev.y = "unset"
    /\ ev' = [ev EXCEPT !.y = percolation_model_fixed_t(ev.x, ev.A, ev.B)]
    /\ UNCHANGED mainvars

EvalNext == EvalApply

EvalSpec == EvalInit /\ [][EvalNext]_vars

(* ============================ properties ============================== *)
IsTableRow(line) == line.kind \in {"fit", "placeholder"}
TableRows == SelectSeq(console, IsTableRow)
IsFitted(d) == d.fit
FittedData == SelectSeq(data_registry, IsFitted)
DataLines(file) == IF Len(file.lines) = 0 THEN <<>> ELSE Tail(file.lines)
NPoints(i) == Min(Len(data_registry[i].x), Len(data_registry[i].sigma))
RECURSIVE PointsBefore(_)
PointsBefore(i) == IF i <= 1 THEN 0 ELSE NPoints(i - 1) + PointsBefore(i - 1)
Terminated == pc \in {"done", "aborted"}

\* C1: a dataset whose fit flag is false never gets a fit result, and on a run
\* that completes it has no line in the parameters file while each of its
\* points is a line of the raw file.
C1_SkippedOnlyInRaw ==
    \A i \in 1..N :
        LET d == data_registry[i] IN
        ~d.fit =>
            /\ Matching(fit_table, d.system) = {}
            /\ Matching(popt_log, d.system) = {}
            /\ pc = "done" =>
                 /\ paramsCsv.exists
                 /\ Matching(DataLines(paramsCsv), d.system) = {}
                 /\ rawCsv.exists
                 /\ \A k \in 1..NPoints(i) :
                      \E j \in DOMAIN DataLines(rawCsv) :
                         LET line == DataLines(rawCsv)[j] IN
                         /\ line.system = d.system
                         /\ ParseX(line.x, 2) = d.x[k]
                         /\ SciEq(ParseE(line.sigma, 3), d.sigma[k])

C1_Witness ==
    /\ pc = "done"
    /\ Len(DataLines(paramsCsv)) = Len(FittedData)
    /\ Cardinality(Matching(DataLines(rawCsv), "NaN3 (Na+)")) = 4
    /\ Matching(fit_table, "NaN3 (Na+)") = {}

\* C2: once the solver has failed on a dataset the run is over at that dataset:
\* nothing fitted or printed for a later dataset, no image, no file, no
\* confirmation, and no step left to take.
C2_SolverFailureAborts ==
    abort = "solver" =>
        /\ pc = "aborted"
        /\ ~ENABLED Next
        /\ idx \in 1..N
        /\ data_registry[idx].fit
        /\ Len(TableRows) = idx - 1
        /\ \A k \in DOMAIN fit_table :
              \E i \in 1..(idx - 1) : data_registry[i].system = fit_table[k].system
        /\ Len(popt_log) = Len(fit_table)
        /\ figure = <<>>
        /\ ~image
        /\ ~rawCsv.exists
        /\ ~paramsCsv.exists
        /\ events = <<>>
        /\ \A k \in DOMAIN console : console[k].kind # "confirm"

C2_Witness ==
    /\ abort = "solver"
    /\ pc = "aborted"
    /\ idx = 3
    /\ Len(fit_table) = 1
    /\ Len(raw_data_table) = 14

\* C3: on a run that completes the console table has one row per dataset, in
\* registry order, fitted or placeholder according to the fit flag, and the
\* parameters file has one line per fitted dataset, in registry order, and
\* no other line.
C3_RowsInRegistryOrder ==
    pc = "done" =>
        /\ Len(TableRows) = N
        /\ \A i \in 1..N :
              /\ TableRows[i].system = data_registry[i].system
              /\ (TableRows[i].kind = "fit") <=> data_registry[i].fit
        /\ paramsCsv.exists
        /\ paramsCsv.lines[1] = ParamsHeader
        /\ Len(DataLines(paramsCsv)) = Len(FittedData)
        /\ \A k \in DOMAIN FittedData :
              DataLines(paramsCsv)[k].system = FittedData[k].system

C3_Witness ==
    /\ pc = "done"
    /\ Len(TableRows) = 5
    /\ TableRows[2].kind = "placeholder"
    /\ Len(DataLines(paramsCsv)) = 4
    /\ DataLines(paramsCsv)[4].system = "ZnCl2 (Zn2+)"

\* C4, as stated: in every line of the parameters file the written VPI equals
\* the written B divided by the written A.
C4_WrittenVpiIsWrittenRatio ==
    \A k \in DOMAIN DataLines(paramsCsv) :
        LET line == DataLines(paramsCsv)[k]
        IN  line.VPI * line.A = 100 * line.B

\* C4, amended: the VPI of a row is the quotient B/A of the row's unrounded
\* fitted values, and the VPI written is that quotient rounded to 2 decimals
\* (its distance from B/A is at most half a hundredth).
C4_VpiIsRoundedRatio ==
    /\ \A k \in DOMAIN fit_table :
          /\ fit_table[k].vpi[1] = popt_log[k].B
          /\ fit_table[k].vpi[2] = popt_log[k].A
    /\ \A k \in DOMAIN DataLines(paramsCsv) :
          LET line == DataLines(paramsCsv)[k]
              a == popt_log[k].A
              b == popt_log[k].B
              diff == 100 * b - line.VPI * a
          IN  /\ 2 * diff <= a
              /\ 2 * (0 - diff) <= a

C4_Witness ==
    /\ pc = "done"
    /\ \E k \in DOMAIN DataLines(paramsCsv) :
          LET line == DataLines(paramsCsv)[k]
          IN  /\ line.VPI * line.A # 100 * line.B
              /\ line.VPI = FmtQ(<<popt_log[k].B, popt_log[k].A>>, 2)

\* C5: once the raw file is written, parsing it back gives, line by line and
\* in registry order, the charge, the fraction and the conductivity of every
\* point of every dataset, and the file has no other line than the header.
C5_RawRoundTrip ==
    "raw" \in Elems(events) =>
        /\ rawCsv.exists
        /\ rawCsv.lines[1] = RawHeader
        /\ Len(DataLines(rawCsv)) = PointsBefore(N + 1)
        /\ \A i \in 1..N : \A k \in 1..NPoints(i) :
              LET line == DataLines(rawCsv)[PointsBefore(i) + k]
                  d == data_registry[i]
              IN  /\ line.system = d.system
                  /\ ParseInt(line.charge) = d.charge
                  /\ ParseX(line.x, 2) = d.x[k]
                  /\ SciEq(ParseE(line.sigma, 3), d.sigma[k])

C5_Witness ==
    /\ pc = "params"
    /\ rawCsv.exists
    /\ Len(rawCsv.lines) = 22
    /\ rawCsv.lines[2].sigma = <<4980, 0 - 7>>
    /\ rawCsv.lines[9].x = 15

RowsKept == \A k \in DOMAIN fit_table : k \in DOMAIN fit_table' /\ fit_table'[k] = fit_table[k]

FitResultsUsed ==
    /\ Len(fit_table) = Len(popt_log)
    /\ \A k \in DOMAIN fit_table :
          /\ fit_table[k].system = popt_log[k].system
          /\ fit_table[k].A = popt_log[k].A
          /\ fit_table[k].B = popt_log[k].B
    /\ \A i \in 1..N : Cardinality(Matching(fit_table, data_registry[i].system)) <= 1
    /\ \A j \in DOMAIN figure :
          figure[j].kind = "line" =>
             \E k \in DOMAIN popt_log :
                /\ popt_log[k].system = figure[j].system
                /\ popt_log[k].A = figure[j].A
                /\ popt_log[k].B = figure[j].B
    /\ \A k \in DOMAIN DataLines(paramsCsv) :
          LET line == DataLines(paramsCsv)[k]
          IN  /\ line.system = popt_log[k].system
              /\ line.A = FmtP(popt_log[k].A, 4)
              /\ line.B = FmtP(popt_log[k].B, 4)

\* C6: a row of fit_table never changes once appended, no dataset has two
\* rows, and the (A, B) of each drawn curve and of each parameters line are
\* the ones the solver returned for that dataset.
C6_FitResultImmutable == [][RowsKept]_vars /\ []FitResultsUsed

C6_Witness ==
    /\ pc = "done"
    /\ Len(fit_table) = 4
    /\ fit_table[1].A # fit_table[4].A
    /\ fit_table[1].B # fit_table[4].B
    /\ Len(figure) = 9
    /\ figure[2].kind = "line"
    /\ figure[2].A = fit_table[1].A

CompletedInOrder ==
    pc = "done" =>
        /\ abort = "none"
        /\ events = <<"image", "raw", "params", "confirm">>
        /\ image
        /\ rawCsv = File(RawFile)
        /\ paramsCsv = File(ParamsFile(fit_table))
        /\ Len(console) >= 3
        /\ SubSeq(console, Len(console) - 2, Len(console)) = ConfirmLines

AbortedByFailure == pc = "aborted" => (abort \in {"solver", "io"} /\ "confirm" \notin Elems(events))

C8_NanAtOrBelowThreshold ==
    (ev.y # "unset" /\ ev.x <= x_c) => ev.y = "nan"

\* C8, amended: the evaluator returns NaN for every x < x_c; at x = x_c it
\* returns 0 (0.0 ** 4.5 = 0.0), which is neither NaN nor positive.
C8_NanBelowZeroAtThreshold ==
    ev.y # "unset" =>
        /\ ev.x < x_c => ev.y = "nan"
        /\ ev.x = x_c => ev.y = "zero"

C8_Witness ==
    /\ pc = "eval"
    /\ ev.x = x_c
    /\ ev.y = "zero"
    /\ ev.A \in ASet

\* C9: every fraction the fitter hands to the evaluator is strictly above
\* x_c, so no fitted value is NaN or zero.
C9_FittedAboveThreshold ==
    /\ \A x \in fitter_x : x > x_c
    /\ \A k \in DOMAIN fit_table :
          \A j \in DOMAIN fit_table[k].rmse.y_fit : fit_table[k].rmse.y_fit[j] = "pos"

C9_Witness ==
    /\ pc = "plot"
    /\ Len(fit_table) = 4
    /\ fitter_x = {H(10), H(20), H(30), H(40), H(50), H(60), H(70)}

====
